---- MODULE Spec2Model ----
(***************************************************************************)
(* Model of app.py, the unemployment dashboard: the cached loader          *)
(* load_data (CSV parse, header clean-up, rate-column reconciliation,      *)
(* date parsing, row dropping, numeric coercion) and the top-to-bottom     *)
(* script evaluation that renders metrics, the region selector, the        *)
(* per-region view, the national chart and the region-average bar chart.   *)
(*                                                                         *)
(* Text (a header name, a cell) is a sequence of tokens; the blank is the  *)
(* token SP.  Header names are sequences of words and blanks, date and     *)
(* rate cells are sequences of characters, region cells are sequences of   *)
(* letters.  A missing value (NaN, NaT, None) is the empty sequence NaN.   *)
(* A parsed date is <<year, month, day>>; a number is <<n>>, n counting    *)
(* hundredths; a mean is the reduced fraction <<num, den>> of hundredths   *)
(* (floating-point rounding is not modelled).                              *)
(***************************************************************************)
EXTENDS Integers, Sequences, FiniteSets, TLC

VARIABLES
    file,        \* content of Unemployment_Rate_upto_11_2020.csv on disk
    cache,       \* the st.cache_data entry of load_data (NoTable: empty)
    reads,       \* how many times read_csv has run in this process
    source,      \* history: the file content the latest read_csv call parsed
    firstTable,  \* history: the table returned by the first successful load_data call
    widget,      \* session state of the "Select Region" selectbox (<<>>: never set)
    pc,          \* position of the script evaluation
    df,          \* script global df (line 63)
    error,       \* the exception that ended the evaluation ("" when none)
    avg_unemp,   \* script global (line 90)
    max_unemp,   \* script global (line 91)
    options,     \* the options handed to st.selectbox (line 102)
    region,      \* script global (line 100)
    region_df,   \* script global (line 106)
    region_avg,  \* script global (line 187)
    rendered     \* the elements emitted to the page by this evaluation, in order

vars == <<file, cache, reads, source, firstTable, widget, pc, df, error, avg_unemp,
          max_unemp, options, region, region_df, region_avg, rendered>>

----------------------------------------------------------------------------
(* Bounds *)

MaxRows == 3
MaxCols == 4
MaxReads == 3

----------------------------------------------------------------------------
(* Text *)

SP == " "
NaN == <<>>
NoTable == <<>>

RECURSIVE LStrip(_)
LStrip(s) == IF s # <<>> /\ Head(s) = SP THEN LStrip(Tail(s)) ELSE s

RECURSIVE RStrip(_)
RStrip(s) ==
    IF s # <<>> /\ s[Len(s)] = SP THEN RStrip(SubSeq(s, 1, Len(s) - 1)) ELSE s

\* str.strip()
Strip(s) == RStrip(LStrip(s))

\* needle in s (Python's substring test)
Contains(s, needle) ==
    \E i \in 1..(Len(s) - Len(needle) + 1) :
        SubSeq(s, i, i + Len(needle) - 1) = needle

\* the sub-sequence of s at the positions satisfying keep, in order
RECURSIVE Pick(_, _, _)
Pick(s, keep, i) ==
    IF i > Len(s) THEN <<>>
    ELSE (IF i \in keep THEN <<s[i]>> ELSE <<>>) \o Pick(s, keep, i + 1)

Range(s) == {s[i] : i \in 1..Len(s)}

SeqsUpTo(S, n) == UNION {[1..k -> S] : k \in 0..n}

----------------------------------------------------------------------------
(* Column names of the source *)

target == <<"Estimated", SP, "Unemployment", SP, "Rate", SP, "(%)">>
needle == <<"Unemployment", SP, "Rate">>
RegionName == <<"Region">>
DateName == <<"Date">>
unemp_col == target

----------------------------------------------------------------------------
(* Tables: a table is a sequence of columns [name, cells], every column    *)
(* holding one cell per row.                                               *)

Names(t) == [j \in 1..Len(t) |-> t[j].name]

NRows(t) == IF t = <<>> THEN 0 ELSE Len(t[1].cells)

HasCol(t, name) == \E j \in 1..Len(t) : t[j].name = name

\* df[name]
Col(t, name) == t[CHOOSE j \in 1..Len(t) : t[j].name = name].cells

\* df[mask]: the rows at the positions in keep, in order
TakeRows(t, keep) ==
    [j \in 1..Len(t) |-> [t[j] EXCEPT !.cells = Pick(@, keep, 1)]]

\* DataFrame.empty
Empty(t) == Len(t) = 0 \/ NRows(t) = 0

----------------------------------------------------------------------------
(* pd.read_csv(..., skipinitialspace=True, na_values=["", " "])            *)

\* the strings read as missing: na_values of the call and pandas' defaults
\* that can be spelled with the letters of the model
NaValues == {<<>>, <<SP>>, <<"N", "A">>}

DupSuffix == <<".1", ".2", ".3", ".4", ".5", ".6">>

\* the parser renames a repeated header name X to X.1, X.2, ...
MangleDupes(names) ==
    [j \in 1..Len(names) |->
        LET k == Cardinality({i \in 1..(j - 1) : names[i] = names[j]})
        IN  IF k = 0 THEN names[j] ELSE names[j] \o <<DupSuffix[k]>>]

ReadCell(c) == IF LStrip(c) \in NaValues THEN NaN ELSE LStrip(c)

read_csv(f) ==
    LET names == MangleDupes([j \in 1..Len(f.header) |-> LStrip(f.header[j])])
    IN  [j \in 1..Len(f.header) |->
            [name  |-> names[j],
             cells |-> [i \in 1..Len(f.rows) |-> ReadCell(f.rows[i][j])]]]

----------------------------------------------------------------------------
(* Header clean-up and rate-column reconciliation (lines 20-29)            *)

\* df.columns = df.columns.str.strip()
StripColumns(t) == [j \in 1..Len(t) |-> [t[j] EXCEPT !.name = Strip(@)]]

\* df.columns.duplicated(): a name that already occurred to the left
Duplicated(t, j) == \E i \in 1..(j - 1) : t[i].name = t[j].name

\* fault: duplicated(keep="last"), the rightmost occurrence of a name survives
DropDuplicatedKeepLast(t) ==
    Pick(t, {j \in 1..Len(t) : ~\E i \in (j + 1)..Len(t) : t[i].name = t[j].name}, 1)

\* df.loc[:, ~df.columns.duplicated()]
DropDuplicated(t) == Pick(t, {j \in 1..Len(t) : ~Duplicated(t, j)}, 1)

\* fault: the looser test "Rate" in c
MatchesRate(t) == SelectSeq(Names(t), LAMBDA c : Contains(c, <<"Rate">>))

\* [c for c in df.columns if "Unemployment Rate" in c]
Matches(t) == SelectSeq(Names(t), LAMBDA c : Contains(c, needle))

\* df.rename(columns={old: new})
Rename(t, old, new) ==
    [j \in 1..Len(t) |-> IF t[j].name = old THEN [t[j] EXCEPT !.name = new] ELSE t[j]]

\* fault: matches[-1] renamed instead of matches[0]
RenameRateLast(t) ==
    IF target \in Range(Names(t)) THEN t
    ELSE Rename(t, Matches(t)[Len(Matches(t))], target)

\* lines 25-29 on a table that has a rate column
RenameRate(t) ==
    IF target \in Range(Names(t)) THEN t ELSE Rename(t, Matches(t)[1], target)

----------------------------------------------------------------------------
(* pd.to_datetime(..., format="%d-%m-%Y", errors="coerce")                 *)

Digit == {"0", "1", "2", "3", "4", "5", "6", "7", "8", "9"}

DigitVal(c) ==
    CASE c = "0" -> 0 [] c = "1" -> 1 [] c = "2" -> 2 [] c = "3" -> 3
      [] c = "4" -> 4 [] c = "5" -> 5 [] c = "6" -> 6 [] c = "7" -> 7
      [] c = "8" -> 8 [] c = "9" -> 9

AllDigits(s) == \A i \in 1..Len(s) : s[i] \in Digit

RECURSIVE Num(_)
Num(s) == IF s = <<>> THEN 0 ELSE 10 * Num(SubSeq(s, 1, Len(s) - 1)) + DigitVal(s[Len(s)])

RECURSIVE Split(_, _)
Split(s, sep) ==
    IF sep \notin Range(s) THEN <<s>>
    ELSE LET i == CHOOSE k \in 1..Len(s) : s[k] = sep /\ \A l \in 1..(k - 1) : s[l] # sep
         IN  <<SubSeq(s, 1, i - 1)>> \o Split(SubSeq(s, i + 1, Len(s)), sep)

\* %d: 3[0-1]|[1-2]\d|0[1-9]|[1-9]| [1-9]
DayField(p) ==
    \/ Len(p) = 1 /\ AllDigits(p) /\ Num(p) >= 1
    \/ Len(p) = 2 /\ AllDigits(p) /\ Num(p) \in 1..31
    \/ Len(p) = 2 /\ p[1] = SP /\ AllDigits(Tail(p)) /\ Num(Tail(p)) >= 1

\* %m: 1[0-2]|0[1-9]|[1-9]
MonthField(p) ==
    \/ Len(p) = 1 /\ AllDigits(p) /\ Num(p) >= 1
    \/ Len(p) = 2 /\ AllDigits(p) /\ Num(p) \in 1..12

\* %Y: \d\d\d\d
YearField(p) == Len(p) = 4 /\ AllDigits(p)

IsLeap(y) == (y % 4 = 0 /\ y % 100 # 0) \/ y % 400 = 0

DaysInMonth(m, y) ==
    IF m = 2 THEN (IF IsLeap(y) THEN 29 ELSE 28)
    ELSE IF m \in {4, 6, 9, 11} THEN 30 ELSE 31

\* fault: no explicit format, so a year/month/day text is parsed too
to_datetime_inferred(c) ==
    IF c = NaN THEN NaN
    ELSE LET p == Split(c, "-")
             q == Split(c, "/")
         IN  IF Len(p) = 3 /\ DayField(p[1]) /\ MonthField(p[2]) /\ YearField(p[3])
             THEN LET d == Num(LStrip(p[1]))
                      m == Num(p[2])
                      y == Num(p[3])
                  IN  IF y >= 1 /\ d <= DaysInMonth(m, y) THEN <<y, m, d>> ELSE NaN
             ELSE IF Len(q) = 3 /\ YearField(q[1]) /\ MonthField(q[2]) /\ DayField(q[3])
             THEN <<Num(q[1]), Num(q[2]), Num(q[3])>>
             ELSE NaN

to_datetime(c) ==
    IF c = NaN THEN NaN
    ELSE LET p == Split(c, "-")
         IN  IF Len(p) = 3 /\ DayField(p[1]) /\ MonthField(p[2]) /\ YearField(p[3])
             THEN LET d == Num(LStrip(p[1]))
                      m == Num(p[2])
                      y == Num(p[3])
                  IN  IF y >= 1 /\ d <= DaysInMonth(m, y) THEN <<y, m, d>> ELSE NaN
             ELSE NaN

----------------------------------------------------------------------------
(* pd.to_numeric(..., errors="coerce"); the rate texts of the model have   *)
(* at most two fraction digits, so hundredths hold them exactly.           *)

to_numeric(c) ==
    IF c = NaN THEN NaN
    ELSE LET p == Split(c, ".")
         IN  IF Len(p) = 1 /\ p[1] # <<>> /\ AllDigits(p[1])
             THEN <<100 * Num(p[1])>>
             ELSE IF /\ Len(p) = 2 /\ AllDigits(p[1]) /\ AllDigits(p[2])
                     /\ p[1] \o p[2] # <<>> /\ Len(p[2]) <= 2
             THEN <<100 * Num(p[1]) + (IF Len(p[2]) = 1 THEN 10 ELSE 1) * Num(p[2])>>
             ELSE NaN

----------------------------------------------------------------------------
(* load_data (lines 12-40; the st.cache variant of lines 43-61 is the same *)
(* body)                                                                   *)

\* df["Date"] = pd.to_datetime(df["Date"], ...), cell by cell
ParseDates(t) ==
    [j \in 1..Len(t) |->
        IF t[j].name = DateName
        THEN [t[j] EXCEPT !.cells = [i \in 1..Len(@) |-> to_datetime(@[i])]]
        ELSE t[j]]

\* df[target] = pd.to_numeric(df[target], ...), cell by cell
CoerceRate(t) ==
    [j \in 1..Len(t) |->
        IF t[j].name = target
        THEN [t[j] EXCEPT !.cells = [i \in 1..Len(@) |-> to_numeric(@[i])]]
        ELSE t[j]]

\* fault: dropna(how="all"), a row goes only when all of the subset is missing
DropNaAllMissing(t, subset) ==
    TakeRows(t, {i \in 1..NRows(t) : \E name \in subset : Col(t, name)[i] # NaN})

\* df.dropna(subset=[...]): the rows with no missing value in the subset
DropNa(t, subset) ==
    TakeRows(t, {i \in 1..NRows(t) : \A name \in subset : Col(t, name)[i] # NaN})

Raise(msg) == [err |-> msg, df |-> NoTable]
Return(t) == [err |-> "", df |-> t]

load_data(f) ==
    IF Len(f.header) = 0 THEN Raise("EmptyDataError: No columns to parse from file")
    ELSE
    LET t2 == DropDuplicated(StripColumns(read_csv(f)))
    IN  IF target \notin Range(Names(t2)) /\ Matches(t2) = <<>>
        THEN Raise("KeyError: Unemployment column not found in CSV")
        ELSE
        LET t3 == RenameRate(t2)
        IN  IF ~HasCol(t3, DateName) THEN Raise("KeyError: Date")
            ELSE
            LET t4 == ParseDates(t3)
            IN  IF ~HasCol(t4, RegionName) THEN Raise("KeyError: Region")
                ELSE Return(CoerceRate(DropNa(t4, {RegionName, DateName})))

----------------------------------------------------------------------------
(* Aggregates of the renderer                                              *)

NonNull(cells) == SelectSeq(cells, LAMBDA c : c # NaN)

RECURSIVE Sum(_)
Sum(cells) == IF cells = <<>> THEN 0 ELSE Head(cells)[1] + Sum(Tail(cells))

RECURSIVE Gcd(_, _)
Gcd(a, b) == IF b = 0 THEN a ELSE Gcd(b, a % b)

Frac(n, d) == LET g == Gcd(n, d) IN IF g = 0 THEN <<0, 1>> ELSE <<n \div g, d \div g>>

\* fault: a missing value counts as a zero
MeanNullAsZero(cells) ==
    IF cells = <<>> THEN NaN ELSE Frac(Sum(NonNull(cells)), Len(cells))

\* Series.mean(): missing values are skipped; NaN when nothing is left
Mean(cells) ==
    LET v == NonNull(cells) IN IF v = <<>> THEN NaN ELSE Frac(Sum(v), Len(v))

\* Series.max(): missing values are skipped; NaN when nothing is left
Max(cells) ==
    LET v == NonNull(cells)
    IN  IF v = <<>> THEN NaN
        ELSE CHOOSE x \in Range(v) : \A y \in Range(v) : x[1] >= y[1]

\* a >= b on two means that are numbers
GeqFrac(a, b) == a[1] * b[2] >= b[1] * a[2]

----------------------------------------------------------------------------
(* Region selector (lines 100-106)                                         *)

\* code point of the letters region names are written with
Ord(c) == CASE c = "A" -> 65 [] c = "B" -> 66 [] c = "C" -> 67 [] c = "N" -> 78

\* Python's < on strings
RECURSIVE StrLess(_, _)
StrLess(a, b) ==
    IF b = <<>> THEN FALSE
    ELSE IF a = <<>> THEN TRUE
    ELSE IF Head(a) # Head(b) THEN Ord(Head(a)) < Ord(Head(b))
    ELSE StrLess(Tail(a), Tail(b))

\* sorted(...) of a set of strings
RECURSIVE Sorted(_)
Sorted(S) ==
    IF S = {} THEN <<>>
    ELSE LET m == CHOOSE x \in S : \A y \in S \ {x} : StrLess(x, y)
         IN  <<m>> \o Sorted(S \ {m})

\* sorted(df["Region"].unique())
RegionOptions(t) == Sorted(Range(Col(t, RegionName)))

\* fault: index=None, nothing is selected until the user chooses
selectboxNoDefault(opts, w) ==
    IF w # <<>> /\ w[2] = opts /\ w[1] \in Range(opts) THEN w[1] ELSE NaN

\* st.selectbox(label, options, index=0): the value the session holds for this
\* widget when it was chosen among these same options, else options[0]; None
\* when there is no option
selectbox(opts, w) ==
    IF w # <<>> /\ w[2] = opts /\ w[1] \in Range(opts) THEN w[1]
    ELSE IF opts = <<>> THEN NaN
    ELSE opts[1]

\* df[df["Region"] == region]
FilterRegion(t, r) == TakeRows(t, {i \in 1..NRows(t) : Col(t, RegionName)[i] = r})

----------------------------------------------------------------------------
(* Region averages (lines 187-192)                                         *)

\* df.groupby("Region")[unemp_col].mean().reset_index()
GroupMean(t) ==
    LET keys == RegionOptions(t)
    IN  [k \in 1..Len(keys) |->
            [Region |-> keys[k],
             rate   |-> Mean(Col(FilterRegion(t, keys[k]), unemp_col))]]

Perms(n) == {p \in [1..n -> 1..n] : \A i, j \in 1..n : i # j => p[i] # p[j]}

\* descending order with missing values last
Descending(s) ==
    \A i, j \in 1..Len(s) :
        i < j => \/ s[j].rate = NaN
                 \/ s[i].rate # NaN /\ GeqFrac(s[i].rate, s[j].rate)

\* fault: ascending=True
sort_values_ascending(s) ==
    {q \in {[k \in 1..Len(s) |-> s[p[k]]] : p \in Perms(Len(s))} :
        \A i, j \in 1..Len(q) :
            i < j => \/ q[j].rate = NaN
                     \/ q[i].rate # NaN /\ GeqFrac(q[j].rate, q[i].rate)}

\* .sort_values(by=unemp_col, ascending=False): the sort is not stable, so every
\* descending arrangement is a possible result
sort_values(s) ==
    {q \in {[k \in 1..Len(s) |-> s[p[k]]] : p \in Perms(Len(s))} : Descending(q)}

----------------------------------------------------------------------------
(* Input files                                                             *)

D1 == <<SP, "0", "1", "-", "0", "3", "-", "2", "0", "2", "0">>
D2 == <<"1", "-", "4", "-", "2", "0", "2", "0">>
DSlash == <<"2", "0", "2", "0", "/", "0", "3", "/", "0", "1">>
DFeb31 == <<"3", "1", "-", "0", "2", "-", "2", "0", "2", "0">>
R5 == <<SP, "5">>
R75 == <<"7", ".", "5">>
RBad == <<"x">>
Blank == <<>>

StdHeader == <<RegionName, <<SP>> \o DateName, <<SP>> \o target>>

RowPool ==
    { <<<<"A">>, D1, R5>>,
      <<<<"A">>, D2, R75>>,
      <<<<"B">>, D1, R75>>,
      <<<<"B">>, D1, RBad>>,
      <<<<"C">>, D2, Blank>>,
      <<Blank, Blank, Blank>>,
      <<<<"B">>, DSlash, R5>>,
      <<<<"A">>, DFeb31, R75>>,
      <<<<"N", "A">>, D1, R5>> }

RowFiles == {[header |-> StdHeader, rows |-> rs] : rs \in SeqsUpTo(RowPool, MaxRows)}

ColPool ==
    { [name |-> RegionName,                        cells |-> <<<<"A">>, <<"B">>>>],
      [name |-> RegionName \o <<SP>>,              cells |-> <<<<"B">>, <<"C">>>>],
      [name |-> <<SP>> \o DateName,                cells |-> <<D1, D2>>],
      [name |-> <<SP>> \o target,                  cells |-> <<R5, R75>>],
      [name |-> target \o <<SP, "original">>,      cells |-> <<R75, RBad>>],
      [name |-> needle,                            cells |-> <<R5, R5>>],
      [name |-> <<SP, "Estimated", SP, "Labour", SP, "Participation", SP, "Rate", SP, "(%)">>,
                                                   cells |-> <<R75, R75>>] }

FileOfCols(cs) ==
    [header |-> [j \in 1..Len(cs) |-> cs[j].name],
     rows   |-> [i \in 1..2 |-> [j \in 1..Len(cs) |-> cs[j].cells[i]]]]

ColFiles == {FileOfCols(cs) : cs \in SeqsUpTo(ColPool, MaxCols)}

----------------------------------------------------------------------------
(* The script evaluation                                                   *)

Unset == <<>>

\* a re-evaluation starts with fresh script globals and an empty page
StartRun(w) ==
    /\ pc' = "load"
    /\ widget' = w
    /\ df' = NoTable
    /\ error' = ""
    /\ avg_unemp' = NaN
    /\ max_unemp' = NaN
    /\ options' = <<>>
    /\ region' = NaN
    /\ region_df' = NoTable
    /\ region_avg' = <<>>
    /\ rendered' = <<>>

Init ==
    /\ file \in RowFiles \cup ColFiles
    /\ cache = NoTable
    /\ reads = 0
    /\ source = [header |-> <<>>, rows |-> <<>>]
    /\ firstTable = NoTable
    /\ widget = Unset
    /\ pc = "load"
    /\ df = NoTable
    /\ error = ""
    /\ avg_unemp = NaN
    /\ max_unemp = NaN
    /\ options = <<>>
    /\ region = NaN
    /\ region_df = NoTable
    /\ region_avg = <<>>
    /\ rendered = <<>>

\* @st.cache_data: what a call finds in the cache
CacheLookup == cache

\* fault: the decorator is missing, nothing is kept
CacheStoreNothing(t) == NoTable

\* @st.cache_data: what the cache holds after the function returned t
CacheStore(t) == t

\* line 63 with the result cached: the function body does not run
LoadCached ==
    /\ pc = "load"
    /\ CacheLookup # NoTable
    /\ df' = CacheLookup
    /\ pc' = "render"
    /\ UNCHANGED <<file, cache, reads, source, firstTable, widget, error, avg_unemp, max_unemp,
                   options, region, region_df, region_avg, rendered>>

\* line 63 with nothing cached: the function body runs on the file; an exception
\* ends the evaluation and leaves the cache empty
LoadFresh ==
    /\ pc = "load"
    /\ CacheLookup = NoTable
    /\ reads < MaxReads
    /\ reads' = reads + 1
    /\ source' = file
    /\ LET res == load_data(file)
       IN  IF res.err # ""
           THEN /\ error' = res.err
                /\ pc' = "aborted"
                /\ UNCHANGED <<cache, df, firstTable>>
           ELSE /\ cache' = CacheStore(res.df)
                /\ df' = res.df
                /\ firstTable' = IF firstTable = NoTable THEN res.df ELSE firstTable
                /\ pc' = "render"
                /\ error' = ""
    /\ UNCHANGED <<file, widget, avg_unemp, max_unemp, options, region, region_df,
                   region_avg, rendered>>

\* fault: the emptiness test is missing
RegionViewAlwaysChart(rdf) == "plotly_chart:region"

\* the per-region view (lines 151-162)
RegionView(rdf) == IF Empty(rdf) THEN "warning" ELSE "plotly_chart:region"

\* lines 64-205
Render ==
    /\ pc = "render"
    /\ avg_unemp' = Mean(Col(df, unemp_col))
    /\ max_unemp' = Max(Col(df, unemp_col))
    /\ options' = RegionOptions(df)
    /\ region' = selectbox(options', widget)
    /\ region_df' = FilterRegion(df, region')
    /\ region_avg' \in sort_values(GroupMean(df))
    /\ rendered' = <<"title", "markdown", "metric:avg", "metric:max", "selectbox",
                     "subheader:region", RegionView(region_df'),
                     "subheader:national", "plotly_chart:national",
                     "subheader:bar", "plotly_chart:bar">>
    /\ pc' = "done"
    /\ UNCHANGED <<file, cache, reads, source, firstTable, widget, df, error>>

\* the user picks another option of the displayed selector: the script re-runs
UserSelects(r) ==
    /\ pc = "done"
    /\ r \in Range(options)
    /\ r # region
    /\ StartRun(<<r, options>>)
    /\ UNCHANGED <<file, cache, reads, source, firstTable>>

\* any other interaction of the same session re-runs the script
Rerun ==
    /\ pc \in {"done", "aborted"}
    /\ StartRun(widget)
    /\ UNCHANGED <<file, cache, reads, source, firstTable>>

\* a new browser session of the same process: widget state starts afresh
NewSession ==
    /\ pc \in {"done", "aborted"}
    /\ widget # Unset
    /\ StartRun(Unset)
    /\ UNCHANGED <<file, cache, reads, source, firstTable>>

\* the file on disk is edited while the process runs (here: its last row removed)
FileRewritten ==
    /\ file.rows # <<>>
    /\ file' = [file EXCEPT !.rows = SubSeq(@, 1, Len(@) - 1)]
    /\ UNCHANGED <<cache, reads, source, firstTable, widget, pc, df, error, avg_unemp, max_unemp,
                   options, region, region_df, region_avg, rendered>>

Next ==
    \/ LoadCached
    \/ LoadFresh
    \/ Render
    \/ \E r \in Range(options) : UserSelects(r)
    \/ Rerun
    \/ NewSession
    \/ FileRewritten

Spec == Init /\ [][Next]_vars

----------------------------------------------------------------------------
(* Properties                                                              *)

Rows(t) == 1..NRows(t)

\* C1: every row of the table load_data returned, as the renderer sees it in any
\* evaluation, has a non-null Region and a non-null Date.
C1_RegionDateNonNull ==
    df # NoTable =>
        \A i \in Rows(df) : Col(df, RegionName)[i] # NaN /\ Col(df, DateName)[i] # NaN

\* a re-evaluation renders a table from which load_data dropped a row
C1_Witness ==
    /\ pc = "done"
    /\ widget # Unset
    /\ NRows(df) >= 1
    /\ NRows(df) < Len(source.rows)

\* C2: once load_data has returned a table, the file is never read again and every
\* later call returns that same table.
C2_LoadedOnce ==
    [][firstTable # NoTable =>
          /\ reads' = reads
          /\ cache' = firstTable
          /\ (pc' = "render" => df' = firstTable)]_vars

\* a later evaluation got the first table although the file on disk now parses to
\* another one
C2_Witness ==
    /\ pc = "render"
    /\ widget # Unset
    /\ reads = 1
    /\ df = firstTable
    /\ load_data(file).df # df

\* the column names before the rate column is reconciled
CleanNames(f) == Names(DropDuplicated(StripColumns(read_csv(f))))

\* C3: without a column named exactly as the target, the first column in header
\* order whose name contains "Unemployment Rate" is renamed to the target and no
\* other column is; with the target present no column is renamed.
C3_RenameFirstMatch ==
    df # NoTable =>
        LET pre == CleanNames(source)
            post == Names(df)
        IN  /\ Len(post) = Len(pre)
            /\ IF \E j \in 1..Len(pre) : pre[j] = target
               THEN post = pre
               ELSE \E j \in 1..Len(pre) :
                       /\ Contains(pre[j], needle)
                       /\ \A i \in 1..(j - 1) : ~Contains(pre[i], needle)
                       /\ post[j] = target
                       /\ \A i \in 1..Len(pre) : i # j => post[i] = pre[i]

\* a table loaded from a header with two candidate columns and no exact target
C3_Witness ==
    /\ df # NoTable
    /\ LET pre == CleanNames(source)
       IN  /\ target \notin Range(pre)
           /\ Cardinality({j \in 1..Len(pre) : Contains(pre[j], needle)}) >= 2
           /\ pre[Len(pre)] # target /\ Contains(pre[Len(pre)], needle)

\* the file has a header, and no column of it is the rate column
NoRateColumn(f) ==
    /\ Len(f.header) >= 1
    /\ \A j \in 1..Len(f.header) :
          Strip(f.header[j]) # target /\ ~Contains(f.header[j], needle)

\* C4: with no column named as the target and none containing "Unemployment Rate",
\* load_data fails with the KeyError and the evaluation ends there: no table, no
\* metric, no selector, no chart.
C4_MissingRateAborts ==
    NoRateColumn(file) =>
        /\ pc \in {"load", "aborted"}
        /\ (pc = "aborted" => error = "KeyError: Unemployment column not found in CSV")
        /\ df = NoTable
        /\ cache = NoTable
        /\ rendered = <<>>

\* a second evaluation of a file that has Region and Date but no rate column has
\* failed again
C4_Witness ==
    /\ pc = "aborted"
    /\ reads >= 2
    /\ NoRateColumn(file)
    /\ \E j \in 1..Len(file.header) : Strip(file.header[j]) = RegionName
    /\ \E j \in 1..Len(file.header) : Strip(file.header[j]) = DateName

OrigName == target \o <<SP, "original">>

RegionColumns(f) == {j \in 1..Len(f.header) : Strip(f.header[j]) = RegionName}

\* a header with Region twice and "Estimated Unemployment Rate (%) original" as the
\* only rate column
DuplicatedRegionFile(f) ==
    /\ Cardinality(RegionColumns(f)) = 2
    /\ \E j \in 1..Len(f.header) : Strip(f.header[j]) = OrigName
    /\ \A j \in 1..Len(f.header) :
          Contains(f.header[j], needle) => Strip(f.header[j]) = OrigName

ExpectedDate(c) ==
    CASE c = D1 -> <<2020, 3, 1>>
      [] c = D2 -> <<2020, 4, 1>>
      [] OTHER -> NaN

ExpectedRate(c) ==
    CASE c = R5 -> <<500>>
      [] c = R75 -> <<750>>
      [] OTHER -> NaN

\* the rows of a file in the standard layout that have a Region and a
\* day-month-year Date
KeptRows(f) ==
    {i \in 1..Len(f.rows) :
        LStrip(f.rows[i][1]) \notin NaValues /\ ExpectedDate(f.rows[i][2]) # NaN}

\* C6: a day-month-year Date text parses to that calendar date ("01-03-2020" is
\* 2020-03-01), any other text becomes null without an exception and its row is
\* dropped, and the rows with a parsable Date and a Region are kept in their
\* original order.
C6_DateParsing ==
    (df # NoTable /\ source.header = StdHeader) =>
        /\ Col(df, RegionName) =
              Pick([i \in 1..Len(source.rows) |-> LStrip(source.rows[i][1])],
                   KeptRows(source), 1)
        /\ Col(df, DateName) =
              Pick([i \in 1..Len(source.rows) |-> ExpectedDate(source.rows[i][2])],
                   KeptRows(source), 1)
        /\ Col(df, target) =
              Pick([i \in 1..Len(source.rows) |-> ExpectedRate(source.rows[i][3])],
                   KeptRows(source), 1)

\* a table with a row before and a row after a dropped "2020/03/01" row
C6_Witness ==
    /\ df # NoTable
    /\ source.header = StdHeader
    /\ Len(source.rows) = 3
    /\ source.rows[2][2] = DSlash
    /\ NRows(df) = 2
    /\ Col(df, DateName) = <<<<2020, 3, 1>>, <<2020, 4, 1>>>>

\* C7: a row with an unparsable rate, a Region and a Date stays in the table with a
\* null rate, and the mean and maximum shown equal those of the table without
\* the null-rate rows.
C7_NullRateIgnored ==
    pc = "done" =>
        LET rate == Col(df, unemp_col)
            valid == {i \in Rows(df) : rate[i] # NaN}
            rest == Pick(rate, valid, 1)
        IN  /\ source.header = StdHeader =>
                Cardinality(Rows(df) \ valid) =
                    Cardinality({i \in KeptRows(source) :
                                    ExpectedRate(source.rows[i][3]) = NaN})
            /\ \A i \in Rows(df) \ valid :
                  LET others == Pick(rate, Rows(df) \ {i}, 1)
                      vals == SelectSeq(others, LAMBDA c : c # NaN)
                  IN  /\ avg_unemp = (IF vals = <<>> THEN NaN
                                      ELSE Frac(Sum(vals), Len(vals)))
                      /\ max_unemp = (IF vals = <<>> THEN NaN
                                      ELSE CHOOSE x \in Range(vals) :
                                               \A y \in Range(vals) : x[1] >= y[1])

\* metrics rendered from a table with one unparsable-rate row and two valid rows
C7_Witness ==
    /\ pc = "done"
    /\ source.header = StdHeader
    /\ \E i \in KeptRows(source) : source.rows[i][3] = RBad
    /\ NRows(df) = 3
    /\ Cardinality({i \in Rows(df) : Col(df, unemp_col)[i] = NaN}) = 1
    /\ avg_unemp = <<625, 1>>
    /\ max_unemp = <<750>>

\* the mean of a region's non-null rates
RegionMean(t, r) ==
    LET vals == SelectSeq(Pick(Col(t, unemp_col),
                               {i \in Rows(t) : Col(t, RegionName)[i] = r}, 1),
                          LAMBDA c : c # NaN)
    IN  IF vals = <<>> THEN NaN ELSE Frac(Sum(vals), Len(vals))

\* one pair per distinct Region, each with that region's mean
OnePairPerRegion ==
    /\ {region_avg[k].Region : k \in 1..Len(region_avg)} = Range(Col(df, RegionName))
    /\ Len(region_avg) = Cardinality(Range(Col(df, RegionName)))
    /\ \A k \in 1..Len(region_avg) :
          region_avg[k].rate = RegionMean(df, region_avg[k].Region)

\* a >= b as the numbers compare: false when either is missing
Geq(a, b) == a # NaN /\ b # NaN /\ a[1] * b[2] >= b[1] * a[2]

\* C8 as stated: one pair per Region with its mean, and each pair's mean is greater
\* than or equal to the next pair's, also when a region has only null rates.
C8_AsStated ==
    pc = "done" =>
        /\ OnePairPerRegion
        /\ \A k \in 1..(Len(region_avg) - 1) :
              Geq(region_avg[k].rate, region_avg[k + 1].rate)

\* C8 amended: one pair per Region with its mean; the pairs whose mean is a number
\* come first, in descending order of the mean, and the pairs of regions with only
\* null rates (mean null) come after them.
C8_DescendingNullsLast ==
    pc = "done" =>
        /\ OnePairPerRegion
        /\ \A k \in 1..(Len(region_avg) - 1) :
              \/ region_avg[k + 1].rate = NaN
              \/ Geq(region_avg[k].rate, region_avg[k + 1].rate)

\* bar data of two regions with different means and one region with only null rates
C8_Witness ==
    /\ pc = "done"
    /\ Len(region_avg) = 3
    /\ region_avg[1].rate # NaN
    /\ region_avg[2].rate # NaN
    /\ region_avg[1].rate # region_avg[2].rate
    /\ region_avg[3].rate = NaN

Index(s, x) == {k \in 1..Len(s) : s[k] = x}

Before(s, x, y) == \E i \in Index(s, x) : \E j \in Index(s, y) : i < j

\* C9: an evaluation whose filtered table has no row shows the warning and no
\* per-region chart, does not raise, and still renders the national chart and
\* the bar chart after it; with rows it shows the per-region chart and no warning.
C9_EmptySelectionWarns ==
    /\ pc \in {"render", "done"} => error = ""
    /\ pc = "done" =>
          IF NRows(region_df) = 0
          THEN /\ Index(rendered, "warning") # {}
               /\ Index(rendered, "plotly_chart:region") = {}
               /\ Before(rendered, "warning", "plotly_chart:national")
               /\ Before(rendered, "warning", "plotly_chart:bar")
          ELSE /\ Index(rendered, "plotly_chart:region") # {}
               /\ Index(rendered, "warning") = {}
               /\ Index(rendered, "plotly_chart:national") # {}
               /\ Index(rendered, "plotly_chart:bar") # {}

\* an evaluation that ended with the warning in place of the per-region chart
C9_Witness ==
    /\ pc = "done"
    /\ NRows(region_df) = 0
    /\ Index(rendered, "warning") # {}
    /\ Len(source.rows) >= 1

\* C10: the options are the distinct Region values of the table, so with at least
\* one row the filtered table is never empty; the warning shows only for a table
\* without rows.
C10_WarningOnlyWhenNoRows ==
    pc = "done" =>
        /\ Range(options) = Range(Col(df, RegionName))
        /\ NRows(df) >= 1 => NRows(region_df) >= 1
        /\ Index(rendered, "warning") # {} => NRows(df) = 0

\* the user chose a region other than the default and its rows were found
C10_Witness ==
    /\ pc = "done"
    /\ widget # Unset
    /\ region = widget[1]
    /\ region # options[1]
    /\ NRows(region_df) >= 1
    /\ NRows(region_df) < NRows(df)

====
